---- MODULE Spec2Model ----
(***************************************************************************)
(* Model of cot_publisher's CotPublisher (src/src/lib.rs): the publisher's *)
(* destination fields, its two transport handles, and the public methods   *)
(* that reconfigure, connect and publish.  Every public method is one      *)
(* action.  The socket operations a method performs, and the stores it     *)
(* makes to the server-target fields, are recorded in program order in     *)
(* lastOps, so that properties about what a call did on the wire can be    *)
(* stated.  The operating system, the network peer and the TLS library     *)
(* are the environment: each of their results is a nondeterministic input. *)
(***************************************************************************)
EXTENDS Integers, Sequences, FiniteSets, TLC

VARIABLES
    multicast,              \* Option<(IpAddr, u16)>
    tak_server_ip_address,  \* Option<(IpAddr, u16)>
    tak_server_domain,      \* Option<Url>
    tak_server_settings,    \* Option<TakServerSetting>
    multicast_socket,       \* Option<UdpSocket>
    tak_server_socket,      \* Option<StreamOptions>
    position,               \* Option<Position>: <<>> or <<Position>>
    panicked,               \* the last call unwound with a panic
    lastCall,               \* name of the last public method called
    lastArgs,               \* the arguments of a set_position call, else <<>>
    lastOps,                \* what that call did, in program order
    stream_head,            \* the first bytes written on the connection held
    varint_size,            \* get_varint's argument
    size_buffer             \* get_varint's result, <<>> before the call

fields == <<multicast, tak_server_ip_address, tak_server_domain,
            tak_server_settings, multicast_socket, tak_server_socket,
            position>>
vars == <<multicast, tak_server_ip_address, tak_server_domain,
          tak_server_settings, multicast_socket, tak_server_socket,
          position, panicked, lastCall, lastArgs, lastOps, stream_head,
          varint_size, size_buffer>>

(***************************************************************************)
(* Bounds of the model.                                                    *)
(***************************************************************************)
\* wall-clock readings get_time() may return: 1..MaxTime
MaxTime == 2
\* the values of a position field: 0..MaxCoord
MaxCoord == 1
\* the lengths get_varint is applied to: 0..MaxSize, and the values around
\* which the encoding gains a byte
MaxSize == 300

(***************************************************************************)
(* Values.                                                                 *)
(***************************************************************************)
None == "None"

\* the addresses the callers configure
MulticastTargets == {"239.2.3.1:6969"}
IpTargets == {"10.0.0.7:8089"}
DomainTargets == {"takserver.example:8089"}

\* PEM: None, File(path) or String(text).  `state` is what the TLS library
\* makes of the material: "ok", "unparsable" (the file cannot be read or
\* parsed, the text is no PEM), "rejected" (parsed, but refused by the
\* context builder).
PEM_None == [kind |-> "None", state |-> "ok"]
PEM_File(s) == [kind |-> "File", state |-> s]
PEM_String(s) == [kind |-> "String", state |-> s]
PEMs == {PEM_None, PEM_File("ok"), PEM_File("unparsable"),
         PEM_String("ok"), PEM_String("unparsable"), PEM_String("rejected")}

TakServerSetting(tls, key, cert, root) ==
    [some |-> TRUE, tls |-> tls, client_key |-> key, client_cert |-> cert,
     root_cert |-> root, ignore_invalid |-> TRUE, verify_hostname |-> FALSE]

\* Option<TakServerSetting>::None
NoSettings ==
    [some |-> FALSE, tls |-> FALSE, client_key |-> PEM_None,
     client_cert |-> PEM_None, root_cert |-> PEM_None,
     ignore_invalid |-> TRUE, verify_hostname |-> FALSE]

\* the settings the callers pass to set_tak_server_tls_settings: none,
\* plaintext, and TLS with at most one credential given
SettingsInputs ==
    {NoSettings, TakServerSetting(FALSE, PEM_None, PEM_None, PEM_None)}
    \cup {TakServerSetting(TRUE, PEM_None, PEM_None, p) : p \in PEMs}
    \cup {TakServerSetting(TRUE, PEM_None, p, PEM_None) : p \in PEMs}
    \cup {TakServerSetting(TRUE, p, PEM_None, PEM_None) : p \in PEMs}

\* Option<UdpSocket> / Option<StreamOptions>
NoSocket == [kind |-> "None", id |-> 0, peer |-> ""]
UdpSocket == [kind |-> "Udp", id |-> 0, peer |-> ""]
StreamOptions_Tcp(id, peer) == [kind |-> "Tcp", id |-> id, peer |-> peer]
StreamOptions_Tls(id, peer) == [kind |-> "Tls", id |-> id, peer |-> peer]

\* one recorded operation: a socket call (conn: the connection it acts on,
\* 0 for the UDP socket; peer: the remote address; data: the bytes written;
\* ok: whether it returned Ok) or a store to a server-target field
Op(op, conn, peer, data, ok) ==
    [op |-> op, conn |-> conn, peer |-> peer, data |-> data, ok |-> ok]
SockOp(op, sock, ok) == Op(op, sock.id, sock.peer, <<>>, ok)
WriteOp(sock, data, ok) == Op("write", sock.id, sock.peer, data, ok)
StoreOp(field) == Op("store", 0, field, <<>>, TRUE)

\* the result of a method body: the fields it leaves, what it did, and
\* whether it panicked
Outcome(sock, ops, panic) == [sock |-> sock, ops |-> ops, panicked |-> panic]

(***************************************************************************)
(* Wire constants and the frame encoder's pure functions.                  *)
(***************************************************************************)
\* PROTOCOL_CHANGE.as_bytes(), abridged: the raw string literal starts with
\* a line feed and "<event", and ends with "</event>" and the four
\* characters \n\n (a raw string keeps the backslashes)
PROTOCOL_CHANGE == <<10, 60, 101, 118, 101, 110, 116, 62, 92, 110, 92, 110>>

\* vec![0xbf, 0x01, 0xbf]
MulticastMagic == <<191, 1, 191>>
\* &[0xbf]
StreamMagic == <<191>>

\* the local address multicast_connect binds
MulticastBind == "192.168.240.1:0"

\* the constructor's arguments: new("U1", "a-f-G"), as bytes
Uid == <<85, 49>>
Type == <<97, 45, 102, 45, 71>>
\* how: "m-g".into()
How == <<109, 45, 103>>
stale_time_ms == 60 * 1000

\* write_u32_varint as it would be if it wrote the groups most significant
\* first
RECURSIVE get_varint_msb_first(_)
get_varint_msb_first(size) ==
    IF size < 128 THEN <<size>>
    ELSE get_varint_msb_first(size \div 128) \o <<(size % 128) + 128>>

\* write_u32_varint: 7 bits a byte, least significant group first, the
\* high bit set on every byte but the last
RECURSIVE get_varint(_)
get_varint(size) ==
    IF size < 128 THEN <<size>>
    ELSE <<(size % 128) + 128>> \o get_varint(size \div 128)

\* Position { lat, lng, hae, ce, le }
Position(lat, lng, hae, ce, le) ==
    [lat |-> lat, lng |-> lng, hae |-> hae, ce |-> ce, le |-> le]

\* the event built for one publish: an absent position gives 0.0 in all
\* five fields; access, qos, opex, xml_detail empty; contact and
\* precision_location None
create_cot(pos_opt, time) ==
    LET pos == IF pos_opt = <<>> THEN Position(0, 0, 0, 0, 0) ELSE pos_opt[1]
    IN [min_proto_version |-> 2, max_proto_version |-> 2, contact_uid |-> Uid,
        type |-> Type, uid |-> Uid,
        send_time |-> time, start_time |-> time,
        stale_time |-> time + stale_time_ms,
        how |-> How,
        lat |-> pos.lat, lon |-> pos.lng, hae |-> pos.hae,
        ce |-> pos.ce, le |-> pos.le,
        xml_detail |-> <<>>]

\* protobuf field encodings: a field holding its default value is left out
EncInt(tag, v) == IF v = 0 THEN <<>> ELSE <<tag>> \o get_varint(v)
EncBytes(tag, b) == IF b = <<>> THEN <<>> ELSE <<tag>> \o get_varint(Len(b)) \o b
EncDouble(tag, v) == IF v = 0 THEN <<>> ELSE <<tag, v>>
EncMessage(tag, body) == <<tag>> \o get_varint(Len(body)) \o body

\* message.encode(&mut message_buffer): the serialized TakMessage
Encode(m) ==
    LET tak_control == EncInt(1, m.min_proto_version)
                       \o EncInt(2, m.max_proto_version)
                       \o EncBytes(3, m.contact_uid)
        detail == EncBytes(1, m.xml_detail)
        cot_event == EncBytes(1, m.type) \o EncBytes(5, m.uid)
                     \o EncInt(6, m.send_time) \o EncInt(7, m.start_time)
                     \o EncInt(8, m.stale_time) \o EncBytes(9, m.how)
                     \o EncDouble(10, m.lat) \o EncDouble(11, m.lon)
                     \o EncDouble(12, m.hae) \o EncDouble(13, m.ce)
                     \o EncDouble(14, m.le) \o EncMessage(15, detail)
    IN EncMessage(1, tak_control) \o EncMessage(2, cot_event)

(***************************************************************************)
(* The environment's answers.                                              *)
(***************************************************************************)
\* one connection attempt: TcpStream::connect succeeds, the warn! log level
\* is enabled (its arguments are evaluated only then), the TLS handshake
\* succeeds, the write of PROTOCOL_CHANGE succeeds
ConnEnv == [tcpOk : BOOLEAN, logOn : BOOLEAN, hsOk : BOOLEAN, annOk : BOOLEAN]

\* one publish: the clock, UdpSocket::bind and send_to, and the three
\* write_all calls of the stream frame
PubEnv == [time : 1..MaxTime, bindOk : BOOLEAN, sendOk : BOOLEAN,
           w1 : BOOLEAN, w2 : BOOLEAN, w3 : BOOLEAN]

(***************************************************************************)
(* multicast_connect and tak_server_connect.                               *)
(***************************************************************************)
multicast_connect(bindOk) == IF bindOk THEN UdpSocket ELSE NoSocket

\* a step of the TLS context construction: what it called, and whether it
\* went on ("ok"), returned None ("err") or panicked in an unwrap ("panic")
Step(ops, res) == [ops |-> ops, res |-> res]
Then(a, b) == IF a.res = "ok" THEN Step(a.ops \o b.ops, b.res) ELSE a
Lib(op, id, ok) == Op(op, id, "", <<>>, ok)
OkOrErr(pem) == IF pem.state = "ok" THEN "ok" ELSE "err"

\* match &server_settings.root_cert
RootCert(pem, id) ==
    CASE pem.kind = "File" ->
            Step(<<Lib("set_ca_file", id, pem.state = "ok")>>, OkOrErr(pem))
      [] pem.kind = "String" ->
            IF pem.state = "unparsable"
            THEN Step(<<Lib("X509::stack_from_pem", id, FALSE)>>, "panic")
            ELSE Step(<<Lib("X509::stack_from_pem", id, TRUE),
                        Lib("set_verify_cert_store", id, pem.state = "ok")>>,
                      OkOrErr(pem))
      [] OTHER -> Step(<<>>, "ok")

\* match &server_settings.client_cert
ClientCert(pem, id) ==
    CASE pem.kind = "File" ->
            Step(<<Lib("set_certificate_file", id, pem.state = "ok")>>, OkOrErr(pem))
      [] pem.kind = "String" ->
            IF pem.state = "unparsable"
            THEN Step(<<Lib("X509::from_pem", id, FALSE)>>, "panic")
            ELSE Step(<<Lib("X509::from_pem", id, TRUE),
                        Lib("set_certificate", id, pem.state = "ok")>>,
                      OkOrErr(pem))
      [] OTHER -> Step(<<>>, "ok")

\* match &server_settings.client_key
ClientKey(pem, id) ==
    CASE pem.kind = "File" ->
            Step(<<Lib("set_private_key_file", id, pem.state = "ok")>>, OkOrErr(pem))
      [] pem.kind = "String" ->
            IF pem.state = "unparsable"
            THEN Step(<<Lib("PKey::private_key_from_pem", id, FALSE)>>, "panic")
            ELSE Step(<<Lib("PKey::private_key_from_pem", id, TRUE),
                        Lib("set_private_key", id, pem.state = "ok")>>,
                      OkOrErr(pem))
      [] OTHER -> Step(<<>>, "ok")

\* stream.write_all(PROTOCOL_CHANGE.as_bytes())
Announce(sock, ok) == <<WriteOp(sock, PROTOCOL_CHANGE, ok)>>

\* the settings used when tak_server_settings is None
DefaultServerSettings == TakServerSetting(FALSE, PEM_None, PEM_None, PEM_None)

\* tak_server_connect(&self) -> Option<StreamOptions>; id is the identity
\* of the connection the environment opens if the TCP connect succeeds
tak_server_connect(ip, domain, settings, id, env) ==
    IF ip = None /\ domain = None THEN Outcome(NoSocket, <<>>, FALSE)
    ELSE
    LET tak_server == IF ip # None THEN ip ELSE domain
        tcp == StreamOptions_Tcp(id, tak_server)
        tls == StreamOptions_Tls(id, tak_server)
        server_settings == IF settings.some THEN settings
                           ELSE DefaultServerSettings
        opened == <<SockOp("tcp_connect", tcp, TRUE)>>
        dropped == <<SockOp("close", tcp, TRUE)>>
        ctx == Then(Then(RootCert(server_settings.root_cert, id),
                         ClientCert(server_settings.client_cert, id)),
                    ClientKey(server_settings.client_key, id))
    IN  IF ~env.tcpOk
        THEN \* the warn! arguments unwrap tak_server_ip_address
             Outcome(NoSocket,
                     <<Op("tcp_connect", 0, tak_server, <<>>, FALSE)>>,
                     env.logOn /\ ip = None)
        ELSE IF ~server_settings.tls
        THEN Outcome(tcp, opened \o Announce(tcp, env.annOk), FALSE)
        ELSE IF ctx.res # "ok"
        THEN Outcome(NoSocket, opened \o ctx.ops \o dropped, ctx.res = "panic")
        ELSE IF ~env.hsOk
        THEN Outcome(NoSocket,
                     opened \o ctx.ops
                     \o <<SockOp("tls_connect", tcp, FALSE)>> \o dropped,
                     FALSE)
        ELSE IF ~env.annOk
        THEN \* write_all(PROTOCOL_CHANGE).unwrap()
             Outcome(NoSocket,
                     opened \o ctx.ops
                     \o <<SockOp("tls_connect", tls, TRUE),
                          SockOp("set_read_timeout", tls, TRUE)>>
                     \o Announce(tls, FALSE) \o dropped,
                     TRUE)
        ELSE Outcome(tls,
                     opened \o ctx.ops
                     \o <<SockOp("tls_connect", tls, TRUE),
                          SockOp("set_read_timeout", tls, TRUE)>>
                     \o Announce(tls, TRUE) \o <<SockOp("read", tls, TRUE)>>,
                     FALSE)

(***************************************************************************)
(* The bodies of the public methods, as functions of the fields they read  *)
(* and of the environment's answers.                                       *)
(***************************************************************************)
\* clear_tak_server as it would be if the handle were only dropped, with no
\* graceful shutdown
clear_tak_server_ops_drop_only(sock, shOk) ==
    <<StoreOp("tak_server_ip_address")>>
    \o (IF sock # NoSocket THEN <<SockOp("close", sock, TRUE)>> ELSE <<>>)

\* clear_tak_server: what it does to the connection sock it finds held:
\* the graceful shutdown (result ignored), the store to
\* tak_server_ip_address, and the drop of the handle
clear_tak_server_ops(sock, shOk) ==
    (IF sock # NoSocket THEN <<SockOp("shutdown", sock, shOk)>> ELSE <<>>)
    \o <<StoreOp("tak_server_ip_address")>>
    \o (IF sock # NoSocket THEN <<SockOp("close", sock, TRUE)>> ELSE <<>>)

\* clear_multicast: dropping the socket closes it
clear_multicast_ops(sock) ==
    IF sock # NoSocket THEN <<SockOp("close", sock, TRUE)>> ELSE <<>>

\* the fields and the record of a publish
Published(mcs, srv, ops, panic) ==
    [multicast_socket |-> mcs, tak_server_socket |-> srv, ops |-> ops,
     panicked |-> panic]

\* the multicast branch as it would be if it bound a socket on every call
publish_multicast_rebinding(mc, sock, message_buffer, env) ==
    IF mc = None
    THEN [sock |-> sock, ops |-> <<>>, panicked |-> FALSE, buf |-> message_buffer]
    ELSE
    LET bind == <<Op("udp_bind", 0, MulticastBind, <<>>, env.bindOk)>>
        socket == multicast_connect(env.bindOk)
        buffer == MulticastMagic \o message_buffer
    IN  IF socket = NoSocket
        THEN [sock |-> socket, ops |-> bind, panicked |-> FALSE,
              buf |-> message_buffer]
        ELSE [sock |-> socket,
              ops |-> bind \o <<Op("udp_send_to", 0, mc, buffer, env.sendOk)>>,
              panicked |-> ~env.sendOk,
              buf |-> <<>>]

\* publish, multicast branch: lazy bind, then one datagram; append moves
\* the bytes out of message_buffer and leaves it empty
publish_multicast(mc, sock, message_buffer, env) ==
    IF mc = None
    THEN [sock |-> sock, ops |-> <<>>, panicked |-> FALSE, buf |-> message_buffer]
    ELSE
    LET bind == IF sock = NoSocket
                THEN <<Op("udp_bind", 0, MulticastBind, <<>>, env.bindOk)>>
                ELSE <<>>
        socket == IF sock = NoSocket THEN multicast_connect(env.bindOk) ELSE sock
        buffer == MulticastMagic \o message_buffer
    IN  IF socket = NoSocket
        THEN [sock |-> socket, ops |-> bind, panicked |-> FALSE,
              buf |-> message_buffer]
        ELSE \* send_to(&buffer, multicast).unwrap()
             [sock |-> socket,
              ops |-> bind \o <<Op("udp_send_to", 0, mc, buffer, env.sendOk)>>,
              panicked |-> ~env.sendOk,
              buf |-> <<>>]

\* the server branch as it would be if the length written were that of the
\* datagram, magic included
publish_tak_server_datagram_length(ip, domain, settings, sock, message_buffer, id, cenv, env) ==
    IF ip = None THEN Outcome(sock, <<>>, FALSE)
    ELSE
    LET c == IF sock = NoSocket
             THEN tak_server_connect(ip, domain, settings, id, cenv)
             ELSE Outcome(sock, <<>>, FALSE)
    IN  IF c.panicked THEN Outcome(sock, c.ops, TRUE)
        ELSE IF c.sock = NoSocket THEN c
        ELSE Outcome(c.sock,
                     c.ops
                     \o <<WriteOp(c.sock, StreamMagic, env.w1),
                          WriteOp(c.sock,
                                  get_varint(Len(MulticastMagic \o message_buffer)),
                                  env.w2),
                          WriteOp(c.sock, message_buffer, env.w3)>>,
                     FALSE)

\* the server branch as it would be if a failed write dropped the connection
publish_tak_server_dropping(ip, domain, settings, sock, message_buffer, id, cenv, env) ==
    IF ip = None THEN Outcome(sock, <<>>, FALSE)
    ELSE
    LET c == IF sock = NoSocket
             THEN tak_server_connect(ip, domain, settings, id, cenv)
             ELSE Outcome(sock, <<>>, FALSE)
        frame == <<WriteOp(c.sock, StreamMagic, env.w1),
                   WriteOp(c.sock, get_varint(Len(message_buffer)), env.w2),
                   WriteOp(c.sock, message_buffer, env.w3)>>
    IN  IF c.panicked THEN Outcome(sock, c.ops, TRUE)
        ELSE IF c.sock = NoSocket THEN c
        ELSE IF env.w1 /\ env.w2 /\ env.w3
        THEN Outcome(c.sock, c.ops \o frame, FALSE)
        ELSE Outcome(NoSocket,
                     c.ops \o frame \o <<SockOp("close", c.sock, TRUE)>>,
                     FALSE)

\* publish, server branch: lazy connect, then the three writes of the
\* stream frame, their results ignored
publish_tak_server(ip, domain, settings, sock, message_buffer, id, cenv, env) ==
    IF ip = None THEN Outcome(sock, <<>>, FALSE)
    ELSE
    LET c == IF sock = NoSocket
             THEN tak_server_connect(ip, domain, settings, id, cenv)
             ELSE Outcome(sock, <<>>, FALSE)
    IN  IF c.panicked THEN Outcome(sock, c.ops, TRUE)
        ELSE IF c.sock = NoSocket THEN c
        ELSE Outcome(c.sock,
                     c.ops
                     \o <<WriteOp(c.sock, StreamMagic, env.w1),
                          \* len() as u32 is the identity on these lengths
                          WriteOp(c.sock, get_varint(Len(message_buffer)),
                                  env.w2),
                          WriteOp(c.sock, message_buffer, env.w3)>>,
                     FALSE)

\* publish as it would be if the multicast socket were bound before the
\* check that there is anything to do
publish_outcome_bind_first(mc, ip, domain, settings, pos, mcs, srv, id, cenv, env) ==
    LET bind == IF mcs = NoSocket
                THEN <<Op("udp_bind", 0, MulticastBind, <<>>, env.bindOk)>>
                ELSE <<>>
        socket == IF mcs = NoSocket THEN multicast_connect(env.bindOk) ELSE mcs
    IN  IF mc = None /\ ip = None
        THEN Published(socket, srv, bind, FALSE)
        ELSE
        LET message_buffer == Encode(create_cot(pos, env.time))
            m == publish_multicast(mc, socket, message_buffer, env)
            s == publish_tak_server(ip, domain, settings, srv, m.buf, id, cenv, env)
        IN  IF m.panicked THEN Published(m.sock, srv, bind \o m.ops, TRUE)
            ELSE Published(m.sock, s.sock, bind \o m.ops \o s.ops, s.panicked)

\* publish(&mut self)
publish_outcome(mc, ip, domain, settings, pos, mcs, srv, id, cenv, env) ==
    IF mc = None /\ ip = None
    THEN \* Nothing to do
         Published(mcs, srv, <<>>, FALSE)
    ELSE
    LET message_buffer == Encode(create_cot(pos, env.time))
        m == publish_multicast(mc, mcs, message_buffer, env)
        s == publish_tak_server(ip, domain, settings, srv, m.buf, id, cenv, env)
    IN  IF m.panicked THEN Published(m.sock, srv, m.ops, TRUE)
        ELSE Published(m.sock, s.sock, m.ops \o s.ops, s.panicked)

\* connect(&mut self): the handle is overwritten with whatever
\* tak_server_connect returns; the handle it replaces is dropped
connect_outcome(ip, domain, settings, srv, id, cenv) ==
    LET c == tak_server_connect(ip, domain, settings, id, cenv)
    IN  IF c.panicked THEN Outcome(srv, c.ops, TRUE)
        ELSE Outcome(c.sock,
                     c.ops \o (IF srv # NoSocket
                               THEN <<SockOp("close", srv, TRUE)>> ELSE <<>>),
                     FALSE)

\* the first bytes written on the connection srv2 held after a call that
\* found srv held with head as its first bytes and did ops
NextHead(head, srv, srv2, ops) ==
    LET w == {i \in DOMAIN ops : ops[i].op = "write" /\ ops[i].conn = srv2.id}
        first == CHOOSE i \in w : \A j \in w : i <= j
    IN  IF srv2 = NoSocket THEN <<>>
        ELSE IF srv2 = srv /\ head # <<>> THEN head
        ELSE IF w = {} THEN <<>>
        ELSE ops[first].data

(***************************************************************************)
(* The state machine.                                                      *)
(***************************************************************************)
\* CotPublisher::new
CotPublisher_new ==
    /\ position = <<>>
    /\ lastArgs = <<>>
    /\ stream_head = <<>>
    /\ size_buffer = <<>>
    /\ multicast = None
    /\ tak_server_ip_address = None
    /\ tak_server_domain = None
    /\ tak_server_settings = NoSettings
    /\ multicast_socket = NoSocket
    /\ tak_server_socket = NoSocket
    /\ panicked = FALSE
    /\ lastCall = "new"
    /\ lastOps = <<>>

Init == CotPublisher_new /\ varint_size = 0

\* the identity of the next connection the environment opens: another than
\* that of the connection still held
NewId == IF tak_server_socket.id = 1 THEN 2 ELSE 1

\* the answers a connection attempt consults; an answer it does not consult
\* is fixed at TRUE
ConnEnvs(ip, domain, settings) ==
    LET tls == settings.some /\ settings.tls
        ctx == Then(Then(RootCert(settings.root_cert, 0),
                         ClientCert(settings.client_cert, 0)),
                    ClientKey(settings.client_key, 0))
        some == ip # None \/ domain # None
    IN {e \in ConnEnv :
          /\ e.tcpOk \/ some
          /\ e.logOn \/ (some /\ ~e.tcpOk /\ ip = None)
          /\ e.hsOk \/ (some /\ e.tcpOk /\ tls /\ ctx.res = "ok")
          /\ e.annOk \/ (some /\ e.tcpOk /\ (~tls \/ (ctx.res = "ok" /\ e.hsOk)))}

\* the environment of a call that attempts no connection
NoConnEnv == [tcpOk |-> TRUE, logOn |-> TRUE, hsOk |-> TRUE, annOk |-> TRUE]

\* the answers a publish consults, likewise
PubEnvs(mc, ip, mcs) ==
    {e \in PubEnv :
       /\ e.time = 1 \/ mc # None \/ ip # None
       /\ e.bindOk \/ (mc # None /\ mcs = NoSocket)
       /\ e.sendOk \/ (mc # None /\ (mcs # NoSocket \/ e.bindOk))
       /\ (e.w1 /\ e.w2 /\ e.w3) \/ (ip # None /\ e.sendOk)}

set_multicast ==
    /\ ~panicked
    /\ \E address \in MulticastTargets :
         /\ multicast' = address
         /\ multicast_socket' = NoSocket
         /\ lastOps' = clear_multicast_ops(multicast_socket)
    /\ lastCall' = "set_multicast"
    /\ lastArgs' = <<>>
    /\ UNCHANGED <<tak_server_ip_address, tak_server_domain,
                   tak_server_settings, tak_server_socket, panicked,
                   position, stream_head, varint_size, size_buffer>>

\* clear_multicast as it would be if it kept the socket
clear_multicast_keeping_socket ==
    /\ ~panicked
    /\ multicast' = None
    /\ lastOps' = <<>>
    /\ lastCall' = "clear_multicast"
    /\ lastArgs' = <<>>
    /\ UNCHANGED <<tak_server_ip_address, tak_server_domain,
                   tak_server_settings, tak_server_socket, panicked,
                   multicast_socket, position, stream_head, varint_size,
                   size_buffer>>

clear_multicast ==
    /\ ~panicked
    /\ multicast' = None
    /\ multicast_socket' = NoSocket
    /\ lastOps' = clear_multicast_ops(multicast_socket)
    /\ lastCall' = "clear_multicast"
    /\ lastArgs' = <<>>
    /\ UNCHANGED <<tak_server_ip_address, tak_server_domain,
                   tak_server_settings, tak_server_socket, panicked,
                   position, stream_head, varint_size, size_buffer>>

set_tak_server_domain ==
    /\ ~panicked
    /\ \E domain \in DomainTargets, shOk \in BOOLEAN :
         /\ tak_server_ip_address' = None
         /\ tak_server_domain' = domain
         /\ tak_server_socket' = NoSocket
         /\ lastOps' = clear_tak_server_ops(tak_server_socket, shOk)
                       \o <<StoreOp("tak_server_ip_address"),
                            StoreOp("tak_server_domain")>>
    /\ lastCall' = "set_tak_server_domain"
    /\ stream_head' = <<>>
    /\ lastArgs' = <<>>
    /\ UNCHANGED <<multicast, multicast_socket, tak_server_settings, panicked,
                   position, varint_size, size_buffer>>

\* set_tak_server_ip_address as it would be if it left tak_server_domain alone
set_tak_server_ip_address_keeping_domain ==
    /\ ~panicked
    /\ \E address \in IpTargets, shOk \in BOOLEAN :
         /\ tak_server_ip_address' = address
         /\ tak_server_socket' = NoSocket
         /\ lastOps' = clear_tak_server_ops(tak_server_socket, shOk)
                       \o <<StoreOp("tak_server_ip_address")>>
    /\ lastCall' = "set_tak_server_ip_address"
    /\ stream_head' = <<>>
    /\ lastArgs' = <<>>
    /\ UNCHANGED <<multicast, multicast_socket, tak_server_domain,
                   tak_server_settings, panicked, position, varint_size, size_buffer>>

set_tak_server_ip_address ==
    /\ ~panicked
    /\ \E address \in IpTargets, shOk \in BOOLEAN :
         /\ tak_server_domain' = None
         /\ tak_server_ip_address' = address
         /\ tak_server_socket' = NoSocket
         /\ lastOps' = clear_tak_server_ops(tak_server_socket, shOk)
                       \o <<StoreOp("tak_server_domain"),
                            StoreOp("tak_server_ip_address")>>
    /\ lastCall' = "set_tak_server_ip_address"
    /\ stream_head' = <<>>
    /\ lastArgs' = <<>>
    /\ UNCHANGED <<multicast, multicast_socket, tak_server_settings, panicked,
                   position, varint_size, size_buffer>>

clear_tak_server ==
    /\ ~panicked
    /\ \E shOk \in BOOLEAN :
         lastOps' = clear_tak_server_ops(tak_server_socket, shOk)
    /\ tak_server_ip_address' = None
    /\ tak_server_socket' = NoSocket
    /\ lastCall' = "clear_tak_server"
    /\ stream_head' = <<>>
    /\ lastArgs' = <<>>
    /\ UNCHANGED <<multicast, multicast_socket, tak_server_domain,
                   tak_server_settings, panicked, position, varint_size, size_buffer>>

set_tak_server_tls_settings ==
    /\ ~panicked
    /\ \E settings \in SettingsInputs : tak_server_settings' = settings
    /\ lastOps' = <<>>
    /\ lastCall' = "set_tak_server_tls_settings"
    /\ lastArgs' = <<>>
    /\ UNCHANGED <<multicast, multicast_socket, tak_server_ip_address,
                   tak_server_domain, tak_server_socket, panicked,
                   position, stream_head, varint_size, size_buffer>>

connect ==
    /\ ~panicked
    /\ \E cenv \in ConnEnvs(tak_server_ip_address, tak_server_domain,
                             tak_server_settings) :
         LET c == connect_outcome(tak_server_ip_address, tak_server_domain,
                                  tak_server_settings, tak_server_socket,
                                  NewId, cenv)
         IN /\ tak_server_socket' = c.sock
            /\ lastOps' = c.ops
            /\ panicked' = c.panicked
            /\ stream_head' = NextHead(stream_head, tak_server_socket,
                                       c.sock, c.ops)
    /\ lastCall' = "connect"
    /\ lastArgs' = <<>>
    /\ UNCHANGED <<multicast, multicast_socket, tak_server_ip_address,
                   tak_server_domain, tak_server_settings,
                   position, varint_size, size_buffer>>

publish ==
    /\ ~panicked
    /\ \E env \in PubEnvs(multicast, tak_server_ip_address, multicast_socket) :
       \E cenv \in IF tak_server_ip_address # None /\ tak_server_socket = NoSocket
                      /\ env.sendOk
                   THEN ConnEnvs(tak_server_ip_address, tak_server_domain,
                                 tak_server_settings)
                   ELSE {NoConnEnv} :
         LET r == publish_outcome(multicast, tak_server_ip_address,
                                  tak_server_domain, tak_server_settings,
                                  position,
                                  multicast_socket, tak_server_socket,
                                  NewId, cenv, env)
         IN /\ multicast_socket' = r.multicast_socket
            /\ tak_server_socket' = r.tak_server_socket
            /\ lastOps' = r.ops
            /\ panicked' = r.panicked
            /\ stream_head' = NextHead(stream_head, tak_server_socket,
                                       r.tak_server_socket, r.ops)
    /\ lastCall' = "publish"
    /\ lastArgs' = <<>>
    /\ UNCHANGED <<multicast, tak_server_ip_address, tak_server_domain,
                   tak_server_settings, position, varint_size, size_buffer>>

Next ==
    \/ set_multicast
    \/ clear_multicast
    \/ set_tak_server_domain
    \/ set_tak_server_ip_address
    \/ clear_tak_server
    \/ set_tak_server_tls_settings
    \/ connect
    \/ publish

Spec == Init /\ [][Next]_vars

(***************************************************************************)
(* The position setters.  The position reaches the wire only as bytes of   *)
(* the payload, so the setters are explored in a specification of their    *)
(* own, with the multicast destination as the one the events go to.        *)
(***************************************************************************)
Coords == 0..MaxCoord

\* set_position as it would be if it always built a new Position
set_position_resetting ==
    /\ ~panicked
    /\ \E lat \in Coords, lng \in Coords :
         /\ position' = <<Position(lat, lng, 0, 0, 0)>>
         /\ lastArgs' = <<lat, lng>>
    /\ lastCall' = "set_position"
    /\ lastOps' = <<>>
    /\ UNCHANGED <<multicast, tak_server_ip_address, tak_server_domain,
                   tak_server_settings, multicast_socket, tak_server_socket,
                   panicked, stream_head, varint_size, size_buffer>>

set_position ==
    /\ ~panicked
    /\ \E lat \in Coords, lng \in Coords :
         /\ position' = IF position # <<>>
                        THEN <<[position[1] EXCEPT !.lat = lat, !.lng = lng]>>
                        ELSE <<Position(lat, lng, 0, 0, 0)>>
         /\ lastArgs' = <<lat, lng>>
    /\ lastCall' = "set_position"
    /\ lastOps' = <<>>
    /\ UNCHANGED <<multicast, tak_server_ip_address, tak_server_domain,
                   tak_server_settings, multicast_socket, tak_server_socket,
                   panicked, stream_head, varint_size, size_buffer>>

set_position_extended ==
    /\ ~panicked
    /\ \E lat \in Coords, lng \in Coords, hae \in Coords, ce \in Coords,
          le \in Coords :
         /\ position' = <<Position(lat, lng, hae, ce, le)>>
         /\ lastArgs' = <<lat, lng, hae, ce, le>>
    /\ lastCall' = "set_position_extended"
    /\ lastOps' = <<>>
    /\ UNCHANGED <<multicast, tak_server_ip_address, tak_server_domain,
                   tak_server_settings, multicast_socket, tak_server_socket,
                   panicked, stream_head, varint_size, size_buffer>>

NextPosition ==
    \/ set_multicast
    \/ set_position
    \/ set_position_extended
    \/ publish

SpecPosition == Init /\ [][NextPosition]_vars

(***************************************************************************)
(* get_varint on its own: the argument is drawn at the start, and the one  *)
(* step applies the function.                                              *)
(***************************************************************************)
\* the lengths tried: every one to MaxSize, and the least and greatest
\* values of 2, 3, 4 and 5 bytes that the checker's integers can hold
Sizes == (0..MaxSize)
         \cup {16383, 16384, 2097151, 2097152, 268435455, 268435456, 2147483647}

InitVarint == CotPublisher_new /\ varint_size \in Sizes

apply_get_varint ==
    /\ size_buffer = <<>>
    /\ size_buffer' = get_varint(varint_size)
    /\ lastCall' = "get_varint"
    /\ UNCHANGED <<multicast, tak_server_ip_address, tak_server_domain,
                   tak_server_settings, multicast_socket, tak_server_socket,
                   position, panicked, lastArgs, lastOps, stream_head,
                   varint_size>>

NextVarint == apply_get_varint

SpecVarint == InitVarint /\ [][NextVarint]_vars

(***************************************************************************)
(* Reading the record of a call.                                           *)
(***************************************************************************)
\* the positions of the operations named in names
At(ops, names) == {i \in DOMAIN ops : ops[i].op \in names}
Did(ops, names) == At(ops, names) # {}
Failed(ops, names) == \E i \in At(ops, names) : ~ops[i].ok

\* the server connections open after the first i operations of a call that
\* found the connection held open
LiveAfter(held, ops, i) ==
    ((IF held # NoSocket THEN {held.id} ELSE {})
        \cup {ops[j].conn : j \in {k \in 1..i : ops[k].op = "tcp_connect" /\ ops[k].ok}})
    \ {ops[j].conn : j \in {k \in 1..i : ops[k].op \in {"shutdown", "close"}
                                          /\ ops[k].conn # 0}}

\* the operations that establish a server connection
Establishing ==
    {"tcp_connect", "set_ca_file", "X509::stack_from_pem", "set_verify_cert_store",
     "set_certificate_file", "X509::from_pem", "set_certificate",
     "set_private_key_file", "PKey::private_key_from_pem", "set_private_key",
     "tls_connect"}

\* the call wrote a stream frame: its last three operations are the writes
\* of the magic byte, the length and the payload
WroteFrame(ops) ==
    /\ Len(ops) >= 3
    /\ \A i \in (Len(ops) - 2)..Len(ops) : ops[i].op = "write"
    /\ ops[Len(ops) - 2].data = StreamMagic
StreamPayload(ops) == ops[Len(ops)].data
\* what follows the 3-byte magic in a datagram
DatagramPayload(data) == SubSeq(data, 4, Len(data))

ServerTargetSet == tak_server_ip_address # None \/ tak_server_domain # None

(***************************************************************************)
(* C1: connect() while a server connection is open makes no TCP connect    *)
(* attempt and leaves the same connection held; connect() with no server   *)
(* destination configured opens nothing.                                   *)
(***************************************************************************)
C1_ConnectIdempotent ==
    [][lastCall' = "connect" =>
         /\ tak_server_socket # NoSocket =>
              /\ tak_server_socket' = tak_server_socket
              /\ ~Did(lastOps', {"tcp_connect"})
         /\ ~ServerTargetSet =>
              /\ tak_server_socket' = NoSocket
              /\ lastOps' = <<>>]_vars

(***************************************************************************)
(* C2: at every point of every call at most one multicast socket and at    *)
(* most one server connection are open: a server connection is opened      *)
(* only once the one held before has been shut down.                       *)
(***************************************************************************)
C2_AtMostOneLiveConnection ==
    [][/\ multicast_socket' \in {NoSocket, UdpSocket}
       /\ \A i \in DOMAIN lastOps' :
            Cardinality(LiveAfter(tak_server_socket, lastOps', i)) <= 1]_vars

(***************************************************************************)
(* C3: set_tak_server_tls_settings called while a server connection is     *)
(* open shuts that connection down and discards it.                        *)
(***************************************************************************)
C3_TlsSettingsChangeTearsDown ==
    [][lastCall' = "set_tak_server_tls_settings" /\ tak_server_socket # NoSocket =>
         /\ tak_server_socket' = NoSocket
         /\ \E i \in At(lastOps', {"shutdown"}) :
              lastOps'[i].conn = tak_server_socket.id]_vars

(***************************************************************************)
(* C4: set_tak_server_ip_address or set_tak_server_domain called while a   *)
(* server connection is open issues exactly one shutdown, of that          *)
(* connection, before any store to a target field, and leaves no           *)
(* connection; called with no connection open, it issues no shutdown.      *)
(***************************************************************************)
C4_ShutdownOnceBeforeRetarget ==
    [][lastCall' \in {"set_tak_server_ip_address", "set_tak_server_domain"} =>
         LET sh == At(lastOps', {"shutdown"})
             st == At(lastOps', {"store"})
         IN IF tak_server_socket # NoSocket
            THEN /\ Cardinality(sh) = 1
                 /\ \A i \in sh :
                      /\ lastOps'[i].conn = tak_server_socket.id
                      /\ \A j \in st : i < j
                 /\ st # {}
                 /\ tak_server_socket' = NoSocket
            ELSE sh = {}]_vars

\* a retargeting call has just shut an open connection down
C4_Witness ==
    /\ lastCall \in {"set_tak_server_ip_address", "set_tak_server_domain"}
    /\ Did(lastOps, {"shutdown"})
    /\ tak_server_socket = NoSocket

(***************************************************************************)
(* C5: the IP-address target and the domain target are never both set.     *)
(***************************************************************************)
C5_TargetsExclusive ==
    ~(tak_server_ip_address # None /\ tak_server_domain # None)

\* set_tak_server_ip_address has replaced a domain target that had a
\* connection open
C5_Witness ==
    /\ lastCall = "set_tak_server_ip_address"
    /\ \E i \in At(lastOps, {"shutdown"}) : lastOps[i].peer \in DomainTargets
    /\ tak_server_ip_address \in IpTargets
    /\ tak_server_domain = None

(***************************************************************************)
(* C6: with a server target set in either addressing mode, a publish()     *)
(* that returns attempts a connection if none is open, and writes a        *)
(* stream frame to the connection it ends up holding.                      *)
(***************************************************************************)
C6_PublishReachesServerTarget ==
    [][lastCall' = "publish" /\ ServerTargetSet /\ ~panicked' =>
         /\ tak_server_socket = NoSocket => Did(lastOps', {"tcp_connect"})
         /\ tak_server_socket' # NoSocket => WroteFrame(lastOps')]_vars

(***************************************************************************)
(* C7: when one publish() sends a datagram and writes a stream frame, the  *)
(* payload of the stream frame is the payload that follows the magic in    *)
(* the datagram.                                                           *)
(***************************************************************************)
C7_SamePayloadBothFrames ==
    [][lastCall' = "publish" /\ WroteFrame(lastOps') =>
         \A i \in At(lastOps', {"udp_send_to"}) :
            StreamPayload(lastOps') = DatagramPayload(lastOps'[i].data)]_vars

(***************************************************************************)
(* C8: in a publish() with both targets set, a failure on one destination  *)
(* does not keep the other from being attempted.                           *)
(***************************************************************************)
C8_FailureIsolation ==
    [][lastCall' = "publish" /\ multicast # None /\ tak_server_ip_address # None =>
         /\ Failed(lastOps', {"udp_bind", "udp_send_to"}) =>
              Did(lastOps', {"tcp_connect", "write"})
         /\ Failed(lastOps', Establishing \cup {"write"}) =>
              Did(lastOps', {"udp_bind", "udp_send_to"})]_vars

(***************************************************************************)
(* C9: a connect() or publish() in which establishing the connection       *)
(* fails returns without panicking and holds no server connection.         *)
(***************************************************************************)
C9_EstablishmentFailureIsQuiet ==
    [][lastCall' \in {"connect", "publish"} /\ Failed(lastOps', Establishing) =>
         /\ ~panicked'
         /\ tak_server_socket' = NoSocket]_vars

(***************************************************************************)
(* C10: publish() with no multicast target and no server target does no    *)
(* socket operation, changes no field and does not panic.                  *)
(***************************************************************************)
C10_PublishWithoutTargetsIsNoOp ==
    [][lastCall' = "publish" /\ multicast = None /\ ~ServerTargetSet =>
         /\ UNCHANGED fields
         /\ lastOps' = <<>>
         /\ ~panicked']_vars

\* publish has been called with nothing configured
C10_Witness ==
    /\ lastCall = "publish"
    /\ multicast = None
    /\ ~ServerTargetSet
    /\ lastOps = <<>>
    /\ ~panicked

(***************************************************************************)
(* C11: every datagram a publish() sends is 0xBF 0x01 0xBF followed by the *)
(* serialized event; every stream frame it writes is the byte 0xBF, then   *)
(* a varint whose value is the length of the bytes written right after     *)
(* it, then those bytes, on one connection, in that order; and a publish   *)
(* writes nothing else on the server stream but the announcement.          *)
(***************************************************************************)
\* the value of a varint
RECURSIVE decode_varint(_)
decode_varint(bytes) ==
    IF bytes = <<>> THEN 0
    ELSE (bytes[1] % 128) + 128 * decode_varint(Tail(bytes))

\* LEB128: bytes, the high bit set on all but the last
IsVarint(bytes) ==
    /\ Len(bytes) >= 1
    /\ \A i \in 1..(Len(bytes) - 1) : bytes[i] \in 128..255
    /\ bytes[Len(bytes)] \in 0..127

C11_FrameLayout ==
    [][lastCall' = "publish" =>
         LET ops == lastOps'
             writes == {i \in At(ops, {"write"}) : ops[i].data # PROTOCOL_CHANGE}
             starts == {i \in writes : ops[i].data = <<191>>}
         IN /\ \A i \in At(ops, {"udp_send_to"}) :
                 /\ Len(ops[i].data) > 3
                 /\ SubSeq(ops[i].data, 1, 3) = <<191, 1, 191>>
                 /\ \E t \in 1..MaxTime :
                      DatagramPayload(ops[i].data) = Encode(create_cot(position, t))
            /\ \A i \in starts :
                 /\ i + 2 <= Len(ops)
                 /\ ops[i + 1].op = "write" /\ ops[i + 2].op = "write"
                 /\ ops[i + 1].conn = ops[i].conn /\ ops[i + 2].conn = ops[i].conn
                 /\ IsVarint(ops[i + 1].data)
                 /\ decode_varint(ops[i + 1].data) = Len(ops[i + 2].data)
            /\ \A i \in writes : \E j \in starts : i \in j..(j + 2)]_vars

\* a publish has written a stream frame with a payload, over TLS
C11_Witness ==
    /\ lastCall = "publish"
    /\ WroteFrame(lastOps)
    /\ StreamPayload(lastOps) # <<>>
    /\ tak_server_socket.kind = "Tls"

(***************************************************************************)
(* C12: get_varint's result is LEB128 (7 bits a byte, least significant    *)
(* group first, the high bit set on every byte but the last), it decodes   *)
(* to the argument, and 0, 127, 128, 300 give [0x00], [0x7F], [0x80,0x01], *)
(* [0xAC,0x02].                                                            *)
(***************************************************************************)
C12_VarintRoundTrip ==
    size_buffer # <<>> =>
        /\ IsVarint(size_buffer)
        /\ decode_varint(size_buffer) = varint_size
        /\ varint_size = 0 => size_buffer = <<0>>
        /\ varint_size = 127 => size_buffer = <<127>>
        /\ varint_size = 128 => size_buffer = <<128, 1>>
        /\ varint_size = 300 => size_buffer = <<172, 2>>

\* 300 has been encoded
C12_Witness == varint_size = 300 /\ size_buffer = <<172, 2>>

(***************************************************************************)
(* C13: set_position(lat, lon) keeps the hae, ce and le of a position that *)
(* exists and zeroes them when none exists; set_position_extended sets all *)
(* five; the event a publish() sends carries the position as last set,     *)
(* and 0.0 in all five fields when none was set.                           *)
(***************************************************************************)
PosOrZero(p) == IF p = <<>> THEN Position(0, 0, 0, 0, 0) ELSE p[1]

\* the event expected at time t for the position pos
EventWith(pos, t) ==
    [min_proto_version |-> 2, max_proto_version |-> 2, contact_uid |-> Uid,
     type |-> Type, uid |-> Uid, send_time |-> t, start_time |-> t,
     stale_time |-> t + 60000, how |-> How,
     lat |-> pos.lat, lon |-> pos.lng, hae |-> pos.hae, ce |-> pos.ce,
     le |-> pos.le, xml_detail |-> <<>>]

C13_PositionCarried ==
    [][/\ lastCall' = "set_position" =>
            position' = <<Position(lastArgs'[1], lastArgs'[2],
                                   PosOrZero(position).hae,
                                   PosOrZero(position).ce,
                                   PosOrZero(position).le)>>
       /\ lastCall' = "set_position_extended" =>
            position' = <<Position(lastArgs'[1], lastArgs'[2], lastArgs'[3],
                                   lastArgs'[4], lastArgs'[5])>>
       /\ lastCall' = "publish" =>
            /\ position' = position
            /\ \A i \in At(lastOps', {"udp_send_to"}) :
                 \E t \in 1..MaxTime :
                    DatagramPayload(lastOps'[i].data)
                        = Encode(EventWith(PosOrZero(position), t))]_vars

\* set_position has acted on a position whose hae, ce and le were set
C13_Witness ==
    /\ lastCall = "set_position"
    /\ position # <<>>
    /\ position[1].hae # 0 /\ position[1].ce # 0 /\ position[1].le # 0
    /\ position[1].lat = lastArgs[1]

(***************************************************************************)
(* C14: a connect() whose attempt fails leaves no connection, and a        *)
(* publish() that follows a failed attempt, with a server target still     *)
(* set and no connection held, makes a new attempt.                        *)
(***************************************************************************)
C14_RetryAfterFailedConnect ==
    [][/\ lastCall' = "connect" /\ Failed(lastOps', Establishing) =>
            tak_server_socket' = NoSocket
       /\ /\ lastCall' = "publish"
          /\ lastCall \in {"connect", "publish"}
          /\ Failed(lastOps, Establishing)
          /\ ServerTargetSet
          /\ tak_server_socket = NoSocket
          => Did(lastOps', {"tcp_connect"})]_vars

(***************************************************************************)
(* C15: when the write of the announcement fails while a connection is     *)
(* being established, the call returns and no connection is held.          *)
(***************************************************************************)
C15_AnnouncementFailureAbandons ==
    [][/\ lastCall' \in {"connect", "publish"}
       /\ \E i \in At(lastOps', {"write"}) :
             lastOps'[i].data = PROTOCOL_CHANGE /\ ~lastOps'[i].ok
       => /\ ~panicked'
          /\ tak_server_socket' = NoSocket]_vars

(***************************************************************************)
(* C16: on every server connection the fixed announcement, the same bytes  *)
(* on every connection, is written before any stream frame: the first      *)
(* write issued on a connection is the announcement, frames are written    *)
(* only on the connection held, and no write succeeds on a connection      *)
(* after the write of its announcement has failed.                         *)
(***************************************************************************)
C16_AnnouncementWrittenFirst ==
    [][/\ tak_server_socket' # NoSocket => stream_head' = PROTOCOL_CHANGE
       /\ \A i \in At(lastOps', {"write"}) :
            lastOps'[i].data # PROTOCOL_CHANGE =>
               /\ tak_server_socket' # NoSocket
               /\ lastOps'[i].conn = tak_server_socket'.id
               /\ \/ tak_server_socket' = tak_server_socket
                     /\ stream_head = PROTOCOL_CHANGE
                  \/ \E j \in 1..(i - 1) :
                        /\ lastOps'[j].op = "write"
                        /\ lastOps'[j].conn = lastOps'[i].conn
                        /\ lastOps'[j].data = PROTOCOL_CHANGE
       /\ \A j \in At(lastOps', {"write"}) :
            lastOps'[j].data = PROTOCOL_CHANGE /\ ~lastOps'[j].ok =>
               \A i \in At(lastOps', {"write"}) :
                  i > j /\ lastOps'[i].conn = lastOps'[j].conn => ~lastOps'[i].ok]_vars

FrameWriteFailed(ops) ==
    /\ WroteFrame(ops)
    /\ \E i \in (Len(ops) - 2)..Len(ops) : ~ops[i].ok
ClosedServer(ops) ==
    \E i \in At(ops, {"shutdown", "close"}) : ops[i].conn # 0

C18_WriteFailureTolerated ==
    [][lastCall' = "publish" =>
         /\ FrameWriteFailed(lastOps') =>
              /\ ~panicked'
              /\ tak_server_socket' # NoSocket
              /\ ~ClosedServer(lastOps')
         /\ tak_server_socket # NoSocket /\ tak_server_ip_address # None =>
              /\ tak_server_socket' = tak_server_socket
              /\ ~Did(lastOps', {"tcp_connect"})
              /\ ~ClosedServer(lastOps')
              /\ ~panicked' =>
                   /\ WroteFrame(lastOps')
                   /\ lastOps'[Len(lastOps')].conn = tak_server_socket.id]_vars

\* a frame write has failed on a connection that was already open
C18_Witness ==
    /\ lastCall = "publish"
    /\ FrameWriteFailed(lastOps)
    /\ ~Did(lastOps, {"tcp_connect"})
    /\ tak_server_socket # NoSocket

(***************************************************************************)
(* C19: a multicast socket is held only while a multicast target is set,   *)
(* set_multicast and clear_multicast leave none, and only publish creates  *)
(* one; a server connection is held only while an IP or domain target is   *)
(* set.                                                                    *)
(***************************************************************************)
C19_HandlesOnlyForTargets ==
    [][/\ multicast_socket' # NoSocket => multicast' # None
       /\ tak_server_socket' # NoSocket =>
            tak_server_ip_address' # None \/ tak_server_domain' # None
       /\ lastCall' \in {"set_multicast", "clear_multicast"} =>
            multicast_socket' = NoSocket
       /\ multicast_socket = NoSocket /\ multicast_socket' # NoSocket =>
            lastCall' = "publish"]_vars

\* clear_multicast has closed a socket that was held
C19_Witness ==
    /\ lastCall = "clear_multicast"
    /\ Did(lastOps, {"close"})
    /\ multicast = None
    /\ multicast_socket = NoSocket

(***************************************************************************)
(* C20: clear_tak_server() leaves no server target of either mode, and     *)
(* the connect() or publish() that follows it opens no connection and      *)
(* writes nothing to a server.                                             *)
(***************************************************************************)
C20_ClearDisablesServer ==
    [][/\ lastCall' = "clear_tak_server" =>
            tak_server_ip_address' = None /\ tak_server_domain' = None
       /\ lastCall = "clear_tak_server" /\ lastCall' \in {"connect", "publish"} =>
            /\ ~Did(lastOps', {"tcp_connect", "write"})
            /\ tak_server_socket' = NoSocket]_vars

====
